---- MODULE Spec2Model ----
(***************************************************************************)
(* Model of the incremental sync pipeline of github-issues-to-weaviate     *)
(* (src/main.py, class GitHubIssueVectorizer): the watermark store, the    *)
(* two pagination loops, the filter/assemble/upsert loop and the           *)
(* orchestrating run().                                                    *)
(*                                                                         *)
(* The GitHub API and the Weaviate store are the environment.  The source  *)
(* serves a fixed list of issues (newest first) in pages of per_page; the  *)
(* store keeps objects by uuid and keeps the metadata objects in fetch     *)
(* order.  Every request to either can raise.                              *)
(*                                                                         *)
(* Optional values (Python None) are sequences of length at most one.      *)
(***************************************************************************)
EXTENDS Integers, Sequences, FiniteSets, TLC

\* ---------------------------------------------------------------- bounds
MaxRuns == 2        \* runs of the action in one behaviour
MaxClock == 2       \* largest value datetime.now() returns
MaxPages == 2       \* the source holds at most MaxPages full pages and a rest
MaxFailures == 1    \* runs that raise in one behaviour
MaxCommentFailures == 1
MaxComments == 3
MaxObjects == 3
MaxDigits == 3  \* comment listings that raise in one run

\* Issues whose shape is freely chosen and whose comment listing may raise.
SpecialNumbers == {1, 2}
\* Numbers of objects a failing batch may have sent before it raised.
PartialFlushes == {0, 1}

\* ------------------------------------------------------ program constants
per_page == 100
comments_per_page == 100
METADATA_COLLECTION_NAME == "ProcessingState"
collection_name == "GitHubIssues"
repo_owner == "owner"
repo_name == "repo"

None == <<>>
Some(x) == <<x>>

Min(a, b) == IF a < b THEN a ELSE b

\* f"{self.repo_owner}/{self.repo_name}"
RepositoryKey == repo_owner \o "/" \o repo_name

VARIABLES
    source,                   \* the GitHub repository: [n, kinds]
    include_comments,         \* self.include_comments
    collections,              \* names of the collections the store holds
    meta,                     \* objects of the metadata collection, fetch order
    store,                    \* the issue collection: uuid -> properties
    now,                      \* last value the clock returned
    run,                      \* number of runs started
    pc,                       \* position of the current run in run()
    client,                   \* self.client: "unset", "open", "closed"
    last_processed_timestamp, \* local of run()
    new_timestamp,            \* local of run()
    page,                     \* local of fetch_github_issues
    all_issues,               \* local of fetch_github_issues
    requests,                 \* requests.get calls of the primary listing, this run
    raisedAt,                 \* step of this run whose request raised, "none" if none
    error,                    \* what run() raised to its caller
    wmWritten,                \* set_last_processed_timestamp returned in this run
    upsertOk,                 \* process_and_store_issues returned in this run
    commentFailed,            \* issues whose comment listing raised: number -> page
    metaAtStart,              \* meta when this run started
    storeAtStart,             \* store when this run started
    meta0,                    \* meta of the initial state
    seen,                     \* timestamps get could have returned so far
    seenBefore,               \* seen when this run started
    doneRuns,                 \* runs that returned True
    idsAtDone,                \* uuids stored after the last earlier run that returned True
    getAtStart,               \* what get would have returned when this run started
    failures,                 \* runs that raised
    pull_requests,            \* local of process_and_store_issues, as it returned
    comment_requests,         \* requests.get calls per comment listing, this run
    added_objects,            \* batch.add_object calls of process_and_store_issues
    closes,                   \* self.client.close() calls on a client, this run
    trace,                    \* phases of run() entered in this run, in order
    creates,                  \* collections.create calls that succeeded, per name
    collections0,             \* collections of the initial state
    environ,                  \* os.environ as __init__ reads it
    call,                     \* the method under call: run, or one called alone
    comments_arg,             \* the argument of _combine_comments called alone
    id_args,                  \* two (owner, name, number) the identifier is made of
    returned                  \* what the method called alone returned

vars == <<source, include_comments, collections, meta, store, now, run, pc,
          client, last_processed_timestamp, new_timestamp, page, all_issues,
          requests, raisedAt, error, wmWritten, upsertOk,
          commentFailed, metaAtStart, storeAtStart, meta0, seen, seenBefore,
          doneRuns, idsAtDone, getAtStart, failures, pull_requests,
          comment_requests,
          added_objects, closes, trace, creates, collections0, environ,
          call, comments_arg, id_args, returned>>

\* ------------------------------------------------------------ the source
\* Shapes of a record of the issues listing.
Kinds == {"plain", "pr", "talk", "long", "nourl"}

\* Number of comments GitHub holds for an issue of a kind.
NumComments(kind) ==
    CASE kind = "talk" -> 2
      [] kind = "long" -> comments_per_page + 1
      [] OTHER -> 0

\* The record the issues listing returns for issue k.  src.touched is the
\* change made to an issue since the first run started, if any: its
\* number, the clock value of the change, the run during which it was made
\* and whether that run had fetched the issue already.
Issue(src, k) ==
    LET kind == IF k <= Len(src.kinds) THEN src.kinds[k] ELSE "plain" IN
    [number |-> k,
     pull_request |-> kind = "pr",
     comments_url |-> kind # "nourl",
     updated_at |-> IF src.touched # None /\ src.touched[1].number = k
                    THEN src.touched[1].at
                    ELSE k % (MaxClock + 1),
     ncomments |-> NumComments(kind)]

\* The listing, sort=created direction=desc.
Github(src) == [i \in 1..src.n |-> Issue(src, src.n + 1 - i)]

\* The listing restricted by the since parameter.
Listing(src, since) ==
    LET IsNew(i) == since = None \/ i.updated_at >= since[1] IN
    SelectSeq(Github(src), IsNew)

PageOf(seq, p, size) == SubSeq(seq, (p - 1) * size + 1, Min(p * size, Len(seq)))

\* The comments listing of an issue, direction=asc.
Comments(issue) ==
    [j \in 1..issue.ncomments |->
        [user |-> IF j % 3 = 0 THEN None ELSE Some("u" \o ToString(j % 2)),
         body |-> IF j % 2 = 0 THEN "" ELSE "c" \o ToString(j)]]

\* --------------------------------------------------------- pure helpers
\* _combine_comments: "[author]: body" for every comment with a body,
\* joined by a blank line; None when there is none.
CommentText(comment) ==
    LET author == IF comment.user # None THEN comment.user[1] ELSE "unknown" IN
    "[" \o author \o "]: " \o comment.body

RECURSIVE JoinTexts(_, _)
JoinTexts(texts, sep) ==
    IF Len(texts) = 0 THEN ""
    ELSE IF Len(texts) = 1 THEN texts[1]
    ELSE texts[1] \o sep \o JoinTexts(Tail(texts), sep)

HasBody(comment) == comment.body # ""

\* Variant: the join is returned whether or not there is a text.
_combine_comments_joined(cs) ==
    LET Texts(withBody) ==
            [j \in 1..Len(withBody) |-> CommentText(withBody[j])]
        Joined(comment_texts) == Some(JoinTexts(comment_texts, "\n\n"))
    IN CHOOSE v \in {Joined(comment_texts) :
                        comment_texts \in {Texts(withBody) :
                            withBody \in {SelectSeq(cs, HasBody)}}} : TRUE

\* Each intermediate value (withBody, comment_texts) is bound once, as a
\* local variable of the function is.
_combine_comments(cs) ==
    LET Texts(withBody) ==
            [j \in 1..Len(withBody) |-> CommentText(withBody[j])]
        Joined(comment_texts) ==
            IF Len(comment_texts) > 0
            THEN Some(JoinTexts(comment_texts, "\n\n"))
            ELSE None
    IN CHOOSE v \in {Joined(comment_texts) :
                        comment_texts \in {Texts(withBody) :
                            withBody \in {SelectSeq(cs, HasBody)}}} : TRUE

\* fetch_github_issue_comments: the pagination loop over the comment
\* listing.  failPage is the page whose request raises (0: none does);
\* the handler logs and breaks, and the function returns all_comments.
RECURSIVE CommentsLoop(_, _, _, _)
CommentsLoop(issue, failPage, p, all_comments) ==
    IF p = failPage
    THEN [comments |-> all_comments, requests |-> p, failed |-> TRUE]
    ELSE LET comments == PageOf(Comments(issue), p, comments_per_page) IN
         IF Len(comments) = 0
         THEN [comments |-> all_comments, requests |-> p, failed |-> FALSE]
         ELSE IF Len(comments) < comments_per_page
         THEN [comments |-> all_comments \o comments, requests |-> p,
               failed |-> FALSE]
         ELSE CommentsLoop(issue, failPage, p + 1, all_comments \o comments)

fetch_github_issue_comments(issue, failPage) ==
    CommentsLoop(issue, failPage, 1, <<>>)

\* Variant: the issue number is left out of the key string.
UniqueId_no_number(owner, name, number) ==
    <<"uuid5", owner \o "_" \o name>>

\* str(uuid.uuid5(uuid.NAMESPACE_URL, f"{owner}_{name}_{number}")): a
\* name-based identifier, a function of the key string alone.
UniqueId(owner, name, number) ==
    <<"uuid5", owner \o "_" \o name \o "_" \o ToString(number)>>

\* fail maps issue numbers to the page of their comment listing that raises.
FailPageOf(fail, number) == IF number \in DOMAIN fail THEN fail[number] ELSE 0

\* Variant: the comments are fetched for every record that is not a pull
\* request.
IssueObject_always_fetch(issue, inc, fail) ==
    LET fetchIt == TRUE
        Object(res) ==
            [uuid |-> UniqueId(repo_owner, repo_name, issue.number),
             properties |->
                 [number |-> issue.number,
                  comments |-> IF fetchIt THEN _combine_comments(res.comments)
                               ELSE None,
                  repository |-> RepositoryKey,
                  commentCount |-> Len(res.comments)],
             requests |-> res.requests,
             failed |-> IF res.failed THEN res.requests ELSE 0]
    IN CHOOSE obj \in {Object(res) : res \in
           {IF fetchIt
            THEN fetch_github_issue_comments(issue,
                                             FailPageOf(fail, issue.number))
            ELSE [comments |-> <<>>, requests |-> 0, failed |-> FALSE]}} : TRUE

\* The body of the for loop of process_and_store_issues for one record
\* that is not a pull request: the object handed to batch.add_object.
IssueObject(issue, inc, fail) ==
    LET fetchIt == inc /\ issue.comments_url
        Object(res) ==
            [uuid |-> UniqueId(repo_owner, repo_name, issue.number),
             properties |->
                 [number |-> issue.number,
                  comments |-> IF fetchIt THEN _combine_comments(res.comments)
                               ELSE None,
                  repository |-> RepositoryKey,
                  commentCount |-> Len(res.comments)],
             requests |-> res.requests,
             failed |-> IF res.failed THEN res.requests ELSE 0]
    IN CHOOSE obj \in {Object(res) : res \in
           {IF fetchIt
            THEN fetch_github_issue_comments(issue,
                                             FailPageOf(fail, issue.number))
            ELSE [comments |-> <<>>, requests |-> 0, failed |-> FALSE]}} : TRUE

\* Variant: the pull_request test is left out of the loop.
Iterations_no_skip(issues, inc, fail) ==
    [i \in 1..Len(issues) |-> Some(IssueObject(issues[i], inc, fail))]

\* process_and_store_issues up to the end of the batch block.  One entry
\* per iteration of "for issue in issues": None where the iteration ends at
\* continue (pull request), else the object it adds.
Iterations(issues, inc, fail) ==
    [i \in 1..Len(issues) |->
        IF issues[i].pull_request THEN None
        ELSE Some(IssueObject(issues[i], inc, fail))]

Added(it) == it # None

\* The objects added in order, the pull requests counted, the comment
\* requests made per issue and the comment listings that raised.
process_and_store_issues(issues, inc, fail) ==
    LET Result(its, added) ==
            [batch |-> [j \in 1..Len(added) |->
                           [uuid |-> added[j][1].uuid,
                            properties |-> added[j][1].properties]],
             pull_requests |->
                 Cardinality({i \in 1..Len(its) : its[i] = None}),
             comment_requests |->
                 {<<added[j][1].properties.number, added[j][1].requests>> :
                     j \in {j \in 1..Len(added) : added[j][1].requests > 0}},
             failed |->
                 {<<added[j][1].properties.number, added[j][1].failed>> :
                     j \in {j \in 1..Len(added) : added[j][1].failed > 0}}]
        OfIterations(its) ==
            CHOOSE r \in {Result(its, added) :
                             added \in {SelectSeq(its, Added)}} : TRUE
    IN CHOOSE r \in {OfIterations(its) :
                        its \in {Iterations(issues, inc, fail)}} : TRUE

\* batch.add_object with an explicit uuid: the collection is keyed by uuid;
\* the object replaces the one stored under its uuid, or is added.
BatchAddObject(objects, obj) ==
    (obj.uuid :> obj.properties) @@ objects

\* What batch[lo..hi] leaves under each uuid when added in order: a later
\* object replaces an earlier one with the same uuid.
RECURSIVE Upserts(_, _, _)
Upserts(batch, lo, hi) ==
    IF lo = hi THEN BatchAddObject(<<>>, batch[lo])
    ELSE LET mid == (lo + hi) \div 2 IN
         Upserts(batch, mid + 1, hi) @@ Upserts(batch, lo, mid)

\* The first k objects of the batch reach the store.
Flush(objects, batch, k) ==
    IF k = 0 THEN objects ELSE Upserts(batch, 1, k) @@ objects

\* ---------------------------------------------------- the watermark store
\* fetch_objects(filters=Filter.by_property("repository").equal(key))
Matching(objects) ==
    LET IsRepo(m) == m.repository = Some(RepositoryKey) IN
    SelectSeq(objects, IsRepo)

\* Variant: the query has no repository filter.
get_last_processed_timestamp_unfiltered(colls, objects) ==
    IF METADATA_COLLECTION_NAME \notin colls THEN None
    ELSE IF Len(objects) > 0
    THEN objects[1].lastProcessedTimestamp
    ELSE None

get_last_processed_timestamp(colls, objects) ==
    IF METADATA_COLLECTION_NAME \notin colls THEN None
    ELSE IF Len(Matching(objects)) > 0
    THEN Matching(objects)[1].lastProcessedTimestamp
    ELSE None

\* Variant: the found object is replaced (data.replace) instead of updated,
\* which drops its repository property.
set_last_processed_timestamp_replace(objects, timestamp) ==
    IF Len(Matching(objects)) > 0
    THEN LET metadata_object == Matching(objects)[1] IN
         [k \in 1..Len(objects) |->
            IF objects[k].uuid = metadata_object.uuid
            THEN [objects[k] EXCEPT !.lastProcessedTimestamp = Some(timestamp),
                                    !.repository = None]
            ELSE objects[k]]
    ELSE Append(objects, [uuid |-> Len(objects) + 1,
                          repository |-> None,
                          lastProcessedTimestamp |-> Some(timestamp)])

\* Variant: every object the query returned is updated.
set_last_processed_timestamp_all(objects, timestamp) ==
    IF Len(Matching(objects)) > 0
    THEN [k \in 1..Len(objects) |->
            IF objects[k].repository = Some(RepositoryKey)
            THEN [objects[k] EXCEPT !.lastProcessedTimestamp = Some(timestamp)]
            ELSE objects[k]]
    ELSE Append(objects, [uuid |-> Len(objects) + 1,
                          repository |-> None,
                          lastProcessedTimestamp |-> Some(timestamp)])

set_last_processed_timestamp(objects, timestamp) ==
    IF Len(Matching(objects)) > 0
    THEN LET metadata_object == Matching(objects)[1] IN
         [k \in 1..Len(objects) |->
            IF objects[k].uuid = metadata_object.uuid
            THEN [objects[k] EXCEPT !.lastProcessedTimestamp = Some(timestamp)]
            ELSE objects[k]]
    ELSE Append(objects, [uuid |-> Len(objects) + 1,
                          repository |-> None,
                          lastProcessedTimestamp |-> Some(timestamp)])

\* ------------------------------------------------------------ initial state
\* Sources of only special issues, of every shape.
SmallSources ==
    UNION {{[n |-> n, kinds |-> ks, touched |-> None] : ks \in [1..n -> Kinds]}
           : n \in 0..Cardinality(SpecialNumbers)}

\* Sources around every page boundary up to MaxPages pages; issue 1 is a
\* pull request, the others are plain.
Sizes == {p * per_page + d : p \in 1..MaxPages, d \in {-1, 0, 1}}
LargeSources == {[n |-> n, kinds |-> <<"pr">>, touched |-> None] : n \in Sizes}

Sources == SmallSources \cup LargeSources

\* ------------------------------------------------------- the settings
\* The variables __init__ reads.  GITHUB_REPOSITORY is held as its
\* segments between "/" ("owner/repo" is <<"owner", "repo">>, "" is <<>>).
DefaultEnviron ==
    [INPUT_WEAVIATE_URL |-> Some("https://weaviate"),
     INPUT_TARGET_REPO_OWNER |-> repo_owner,
     INPUT_TARGET_REPO_NAME |-> repo_name,
     GITHUB_REPOSITORY |-> <<>>,
     INPUT_VECTORIZER |-> "text2vec-weaviate",
     INPUT_BATCH_SIZE |-> None]

Environs ==
    {DefaultEnviron,
     [DefaultEnviron EXCEPT !.INPUT_TARGET_REPO_OWNER = "",
                            !.INPUT_TARGET_REPO_NAME = "",
                            !.GITHUB_REPOSITORY = <<repo_owner, repo_name>>],
     [DefaultEnviron EXCEPT !.INPUT_TARGET_REPO_NAME = "",
                            !.GITHUB_REPOSITORY = <<repo_owner, repo_name>>],
     [DefaultEnviron EXCEPT !.INPUT_VECTORIZER = "text2vec-unknown"],
     [DefaultEnviron EXCEPT !.INPUT_BATCH_SIZE = Some(<<"1", "0", "-">>)],
     [DefaultEnviron EXCEPT !.INPUT_WEAVIATE_URL = None],
     [DefaultEnviron EXCEPT !.INPUT_WEAVIATE_URL = Some("")],
     [DefaultEnviron EXCEPT !.INPUT_TARGET_REPO_OWNER = ""],
     [DefaultEnviron EXCEPT !.INPUT_TARGET_REPO_NAME = "",
                            !.GITHUB_REPOSITORY = <<repo_owner>>],
     [DefaultEnviron EXCEPT !.INPUT_TARGET_REPO_OWNER = "",
                            !.GITHUB_REPOSITORY = <<"", repo_name>>],
     [DefaultEnviron EXCEPT !.INPUT_TARGET_REPO_OWNER = "",
                            !.INPUT_TARGET_REPO_NAME = "",
                            !.GITHUB_REPOSITORY = <<repo_owner, "">>]}

\* github_repository.split("/", 1)
RECURSIVE JoinSegments(_)
JoinSegments(segs) ==
    IF Len(segs) = 1 THEN segs[1]
    ELSE segs[1] \o "/" \o JoinSegments(Tail(segs))

Split1(segs) == <<segs[1], JoinSegments(Tail(segs))>>

\* __init__: self.repo_owner, self.repo_name after the fallback to
\* GITHUB_REPOSITORY.
ResolveRepo(e) ==
    IF e.INPUT_TARGET_REPO_OWNER = "" \/ e.INPUT_TARGET_REPO_NAME = ""
    THEN IF Len(e.GITHUB_REPOSITORY) >= 2
         THEN Split1(e.GITHUB_REPOSITORY)
         ELSE <<e.INPUT_TARGET_REPO_OWNER, e.INPUT_TARGET_REPO_NAME>>
    ELSE <<e.INPUT_TARGET_REPO_OWNER, e.INPUT_TARGET_REPO_NAME>>

\* Variant: the store URL is not among the validated inputs.
missing_inputs_no_url(e) ==
    (IF ResolveRepo(e)[1] = "" THEN {"repo_owner"} ELSE {})
    \cup (IF ResolveRepo(e)[2] = "" THEN {"repo_name"} ELSE {})

\* _validate_inputs: the names it collects; it raises ValueError when
\* there is one.
missing_inputs(e) ==
    (IF e.INPUT_WEAVIATE_URL \in {None, Some("")} THEN {"weaviate_url"} ELSE {})
    \cup (IF ResolveRepo(e)[1] = "" THEN {"repo_owner"} ELSE {})
    \cup (IF ResolveRepo(e)[2] = "" THEN {"repo_name"} ELSE {})

\* int(text) for a text held as its characters: an optional "-" and
\* decimal digits; None stands for the ValueError of any other text.
DigitChars == <<"0", "1", "2", "3", "4", "5", "6", "7", "8", "9">>

DigitValue(c) == (CHOOSE d \in 1..10 : DigitChars[d] = c) - 1

IsDigits(chars) ==
    /\ Len(chars) >= 1
    /\ \A j \in 1..Len(chars) : \E d \in 1..10 : DigitChars[d] = chars[j]

RECURSIVE DigitsValue(_)
DigitsValue(chars) ==
    IF Len(chars) = 0 THEN 0
    ELSE 10 * DigitsValue(SubSeq(chars, 1, Len(chars) - 1))
         + DigitValue(chars[Len(chars)])

int(chars) ==
    IF IsDigits(chars) THEN Some(DigitsValue(chars))
    ELSE IF Len(chars) >= 2 /\ chars[1] = "-" /\ IsDigits(Tail(chars))
    THEN Some(0 - DigitsValue(Tail(chars)))
    ELSE None

\* __init__: self.batch_size = int(os.getenv("INPUT_BATCH_SIZE", "100"))
self_batch_size(e) ==
    IF e.INPUT_BATCH_SIZE = None THEN Some(100) ELSE int(e.INPUT_BATCH_SIZE[1])

\* Whether __init__ raises ValueError: in int() or in _validate_inputs.
InitRaises(e) == self_batch_size(e) = None \/ missing_inputs(e) # {}

\* Variant: the configured value is used as it is.
batch_size_uncapped(configured) == configured

\* process_and_store_issues: batch_size = min(self.batch_size, 100)
batch_size(configured) == Min(configured, 100)

\* _get_vectorizer_method: the keys of vectorizer_map.
vectorizer_map ==
    {"text2vec-weaviate", "text2vec-openai", "text2vec-transformers",
     "text2vec-contextionary", "text2vec_ollama", "text2vec-cohere",
     "text2vec-jinaai"}

MetaObject(id, repo, ts) ==
    [uuid |-> id, repository |-> repo, lastProcessedTimestamp |-> Some(ts)]

\* What the metadata collection may hold before the first run: nothing, the
\* watermark of this repository, of another one, or a duplicated watermark.
\* Timestamps are at most the initial clock.
MetaSeeds ==
    {<<>>,
     <<MetaObject(1, Some(RepositoryKey), 1)>>,
     <<MetaObject(1, Some("other/repo"), 1)>>,
     <<MetaObject(1, Some(RepositoryKey), 1), MetaObject(2, Some(RepositoryKey), 0)>>}

\* Sources of more than one issue come with no watermark or the watermark
\* of this repository; the large ones exercise pagination and come without
\* comments, into a store that has its collections.
PagingSeeds == {<<>>, <<MetaObject(1, Some(RepositoryKey), 1)>>}

SeenOf(colls, objects) ==
    LET t == get_last_processed_timestamp(colls, objects) IN
    IF t = None THEN {} ELSE {t[1]}

Init ==
    /\ source \in Sources
    /\ include_comments \in IF source \in LargeSources THEN {FALSE} ELSE BOOLEAN
    /\ collections \in IF source \in LargeSources
                       THEN {{collection_name, METADATA_COLLECTION_NAME}}
                       ELSE {{}, {collection_name, METADATA_COLLECTION_NAME}}
    /\ meta \in IF METADATA_COLLECTION_NAME \notin collections THEN {<<>>}
                ELSE IF source.n > 1 THEN PagingSeeds
                ELSE MetaSeeds
    /\ store = <<>>
    /\ now = 1
    /\ run = 0
    /\ pc = "idle"
    /\ client = "unset"
    /\ last_processed_timestamp = None
    /\ new_timestamp = None
    /\ page = 1
    /\ all_issues = <<>>
    /\ requests = <<>>
    /\ raisedAt = "none"
    /\ error = None
    /\ wmWritten = FALSE
    /\ upsertOk = FALSE
    /\ commentFailed = {}
    /\ metaAtStart = meta
    /\ storeAtStart = store
    /\ meta0 = meta
    /\ seen = SeenOf(collections, meta)
    /\ seenBefore = seen
    /\ doneRuns = 0
    /\ idsAtDone = None
    /\ getAtStart = get_last_processed_timestamp(collections, meta)
    /\ failures = 0
    /\ pull_requests = 0
    /\ comment_requests = {}
    /\ added_objects = 0
    /\ closes = 0
    /\ trace = <<>>
    /\ creates = [c \in {collection_name, METADATA_COLLECTION_NAME} |-> 0]
    /\ collections0 = collections
    /\ environ \in IF source.n = 0 THEN Environs ELSE {DefaultEnviron}
    /\ call = "run"
    /\ comments_arg = <<>>
    /\ id_args = <<>>
    /\ returned = None


\* ------------------------------------------------------------------ run()
envVars == <<source, include_comments, meta0, collections0, environ, call,
            comments_arg, id_args, returned>>
countVars == <<pull_requests, added_objects, comment_requests>>
fetchVars == <<page, all_issues, requests>>
histVars == <<metaAtStart, storeAtStart, seenBefore, getAtStart>>

\* Variant: the except block re-raises without closing the client.
Raise_keeps_open(step, cl) ==
    /\ failures < MaxFailures
    /\ failures' = failures + 1
    /\ pc' = "failed"
    /\ raisedAt' = step
    /\ client' = cl
    /\ closes' = closes
    /\ error' = Some(step)

\* The except block of run(): log, self.client.close(), raise.  A client
\* that was never assigned makes close() raise AttributeError instead.
Raise(step, cl) ==
    /\ failures < MaxFailures
    /\ failures' = failures + 1
    /\ pc' = "failed"
    /\ raisedAt' = step
    /\ client' = IF cl = "unset" THEN "unset" ELSE "closed"
    /\ closes' = IF cl = "unset" THEN closes ELSE closes + 1
    /\ error' = IF cl = "unset" THEN Some("AttributeError") ELSE Some(step)

\* __main__: vectorizer = GitHubIssueVectorizer(); vectorizer.run()
StartRun ==
    /\ pc \in {"idle", "done", "failed"}
    /\ ~InitRaises(environ)
    /\ run < MaxRuns
    /\ run' = run + 1
    /\ pc' = "init"
    /\ client' = "unset"
    /\ last_processed_timestamp' = None
    /\ new_timestamp' = None
    /\ page' = 1
    /\ all_issues' = <<>>
    /\ requests' = <<>>
    /\ raisedAt' = "none"
    /\ error' = None
    /\ wmWritten' = FALSE
    /\ upsertOk' = FALSE
    /\ commentFailed' = {}
    /\ metaAtStart' = meta
    /\ storeAtStart' = store
    /\ seenBefore' = seen
    /\ getAtStart' = get_last_processed_timestamp(collections, meta)
    /\ idsAtDone' = IF pc = "done" THEN Some(DOMAIN store) ELSE idsAtDone
    /\ UNCHANGED <<envVars, collections, meta, store, now, seen, doneRuns>>
    /\ UNCHANGED failures
    /\ pull_requests' = 0
    /\ comment_requests' = {}
    /\ added_objects' = 0
    /\ closes' = 0
    /\ trace' = <<>>
    /\ UNCHANGED creates

\* __main__: GitHubIssueVectorizer() raises ValueError in int() or in
\* _validate_inputs; the handler of __main__ logs it and exits with status 1.
ConstructFail ==
    /\ pc = "idle"
    /\ InitRaises(environ)
    /\ pc' = "exit"
    /\ raisedAt' = "__init__"
    /\ error' = Some("ValueError")
    /\ UNCHANGED <<envVars, fetchVars, histVars, countVars, collections, meta,
                   store, now, run, client, last_processed_timestamp,
                   new_timestamp, wmWritten, upsertOk, commentFailed, seen,
                   doneRuns, idsAtDone, failures, closes, trace, creates>>

\* Variant: the collections are created without the exists() checks.
ToCreate_unchecked(colls) == {collection_name, METADATA_COLLECTION_NAME}

\* _ensure_schema_exists: the collections whose exists() check is false.
ToCreate(colls) == {collection_name, METADATA_COLLECTION_NAME} \ colls

\* The create calls counted per collection name.
Created(cnt, names) == [c \in DOMAIN cnt |-> IF c \in names THEN cnt[c] + 1 ELSE cnt[c]]

\* connect_to_weaviate: the connection cannot be established (or the
\* vectorizer headers cannot be derived); self.client is never assigned.
ConnectFail ==
    /\ pc = "init"
    /\ Raise("connect", "unset")
    /\ UNCHANGED <<envVars, fetchVars, histVars, collections, meta, store, now,
                   run, last_processed_timestamp, new_timestamp, wmWritten,
                   upsertOk, commentFailed, seen, doneRuns, idsAtDone>>
    /\ trace' = Append(trace, "connect")
    /\ UNCHANGED <<countVars, creates>>

\* connect_to_weaviate: connected, _ensure_schema_exists creates what is
\* missing.
Connect ==
    /\ pc = "init"
    /\ collection_name \in collections \/ environ.INPUT_VECTORIZER \in vectorizer_map
    /\ client' = "open"
    /\ collections' = collections \cup ToCreate(collections)
    /\ creates' = Created(creates, ToCreate(collections))
    /\ pc' = "connected"
    /\ UNCHANGED <<envVars, fetchVars, histVars, meta, store, now, run,
                   last_processed_timestamp, new_timestamp, raisedAt, error,
                   wmWritten, upsertOk, commentFailed, seen, doneRuns, idsAtDone>>
    /\ UNCHANGED failures
    /\ trace' = Append(trace, "connect")
    /\ UNCHANGED <<countVars, closes>>

\* connect_to_weaviate: connected, a request of _ensure_schema_exists
\* raises, before or after the issue collection was created.
SchemaFail ==
    /\ pc = "init"
    /\ \E created \in {{}} \cup
            (IF environ.INPUT_VECTORIZER \in vectorizer_map
             THEN {ToCreate(collections) \cap {collection_name}} ELSE {}) :
          /\ collections' = collections \cup created
          /\ creates' = Created(creates, created)
    /\ Raise("schema", "open")
    /\ UNCHANGED <<envVars, fetchVars, histVars, meta, store, now, run,
                   last_processed_timestamp, new_timestamp, wmWritten,
                   upsertOk, commentFailed, seen, doneRuns, idsAtDone>>
    /\ trace' = Append(trace, "connect")
    /\ UNCHANGED countVars

\* connect_to_weaviate: connected, the issue collection does not exist and
\* _get_vectorizer_method raises ValueError for a name not in its map; the
\* except block of run() closes the client and re-raises.
VectorizerFail ==
    /\ pc = "init"
    /\ collection_name \notin collections
    /\ environ.INPUT_VECTORIZER \notin vectorizer_map
    /\ pc' = "failed"
    /\ raisedAt' = "vectorizer"
    /\ client' = "closed"
    /\ closes' = closes + 1
    /\ error' = Some("vectorizer")
    /\ UNCHANGED failures
    /\ trace' = Append(trace, "connect")
    /\ UNCHANGED <<envVars, fetchVars, histVars, countVars, collections, meta,
                   store, now, run, last_processed_timestamp, new_timestamp,
                   wmWritten, upsertOk, commentFailed, seen, doneRuns,
                   idsAtDone, creates>>

\* run(): get_last_processed_timestamp(), then new_timestamp = datetime.now()
ReadWatermark ==
    /\ pc = "connected"
    /\ last_processed_timestamp' = get_last_processed_timestamp(collections, meta)
    /\ \E t \in now..MaxClock :
          /\ now' = t
          /\ new_timestamp' = Some(t)
    /\ pc' = "fetching"
    /\ UNCHANGED <<envVars, fetchVars, histVars, collections, meta, store, run,
                   client, raisedAt, error, wmWritten, upsertOk, commentFailed,
                   seen, doneRuns, idsAtDone>>
    /\ UNCHANGED failures
    /\ trace' = Append(trace, "read")
    /\ UNCHANGED <<countVars, closes, creates>>

\* Variant: the exception of the watermark read is caught where it is
\* raised and the run goes on as if there were no watermark.
ReadWatermarkFail_ignored ==
    /\ pc = "connected"
    /\ failures < MaxFailures
    /\ failures' = failures + 1
    /\ raisedAt' = "get"
    /\ last_processed_timestamp' = None
    /\ new_timestamp' = Some(now)
    /\ pc' = "fetching"
    /\ trace' = Append(trace, "read")
    /\ UNCHANGED <<envVars, fetchVars, histVars, countVars, collections, meta,
                   store, now, run, client, error, wmWritten, upsertOk,
                   commentFailed, seen, doneRuns, idsAtDone, closes, creates>>

ReadWatermarkFail ==
    /\ pc = "connected"
    /\ Raise("get", client)
    /\ UNCHANGED <<envVars, fetchVars, histVars, collections, meta, store, now,
                   run, last_processed_timestamp, new_timestamp, wmWritten,
                   upsertOk, commentFailed, seen, doneRuns, idsAtDone>>
    /\ trace' = Append(trace, "read")
    /\ UNCHANGED <<countVars, creates>>

\* Variants: no short-page test; the page replaces what was fetched so far.
IsLastPage_never(issues) == FALSE
Extend_overwrite(all, issues) == issues

\* Variant: a page one record short of full is not taken as the last.
IsLastPage_off_by_one(issues) == Len(issues) < per_page - 1

\* fetch_github_issues: the tests after a page arrived.
IsLastPage(issues) == Len(issues) < per_page
NextPage(p) == p + 1
Extend(all, issues) == all \o issues

\* Variant: the since parameter is sent with the first page only.
FetchPage_since_first_page ==
    /\ pc = "fetching"
    /\ LET since == IF page = 1 THEN last_processed_timestamp ELSE None
           issues == PageOf(Listing(source, since), page, per_page) IN
       /\ requests' = Append(requests, [page |-> page, since |-> since])
       /\ IF Len(issues) = 0
          THEN /\ pc' = "fetched"
               /\ UNCHANGED <<all_issues, page>>
          ELSE /\ all_issues' = Extend(all_issues, issues)
               /\ IF IsLastPage(issues)
                  THEN pc' = "fetched" /\ page' = page
                  ELSE pc' = "fetching" /\ page' = NextPage(page)
    /\ UNCHANGED <<envVars, histVars, collections, meta, store, now, run, client,
                   last_processed_timestamp, new_timestamp, raisedAt, error,
                   wmWritten, upsertOk, commentFailed, seen, doneRuns, idsAtDone>>
    /\ UNCHANGED failures
    /\ trace' = IF Len(requests) = 0 THEN Append(trace, "fetch") ELSE trace
    /\ UNCHANGED <<countVars, closes, creates>>

\* fetch_github_issues: one iteration of the while loop whose request
\* succeeds.
FetchPage ==
    /\ pc = "fetching"
    /\ LET issues == PageOf(Listing(source, last_processed_timestamp), page, per_page) IN
       /\ requests' = Append(requests, [page |-> page, since |-> last_processed_timestamp])
       /\ IF Len(issues) = 0
          THEN /\ pc' = "fetched"
               /\ UNCHANGED <<all_issues, page>>
          ELSE /\ all_issues' = Extend(all_issues, issues)
               /\ IF IsLastPage(issues)
                  THEN pc' = "fetched" /\ page' = page
                  ELSE pc' = "fetching" /\ page' = NextPage(page)
    /\ UNCHANGED <<envVars, histVars, collections, meta, store, now, run, client,
                   last_processed_timestamp, new_timestamp, raisedAt, error,
                   wmWritten, upsertOk, commentFailed, seen, doneRuns, idsAtDone>>
    /\ UNCHANGED failures
    /\ trace' = IF Len(requests) = 0 THEN Append(trace, "fetch") ELSE trace
    /\ UNCHANGED <<countVars, closes, creates>>

\* Variant: the handler breaks out of the loop, as the comment listing's does,
\* and the issues fetched so far are returned.
FetchPageFail_break ==
    /\ pc = "fetching"
    /\ requests' = Append(requests, [page |-> page, since |-> last_processed_timestamp])
    /\ failures < MaxFailures
    /\ failures' = failures + 1
    /\ raisedAt' = "fetch"
    /\ pc' = "fetched"
    /\ UNCHANGED <<envVars, histVars, page, all_issues, collections, meta,
                   store, now, run, client, error, last_processed_timestamp,
                   new_timestamp, wmWritten, upsertOk, commentFailed, seen,
                   doneRuns, idsAtDone>>
    /\ trace' = IF Len(requests) = 0 THEN Append(trace, "fetch") ELSE trace
    /\ UNCHANGED <<countVars, closes, creates>>

\* fetch_github_issues: the request raises RequestException; logged and
\* re-raised, run() fails.
FetchPageFail ==
    /\ pc = "fetching"
    /\ requests' = Append(requests, [page |-> page, since |-> last_processed_timestamp])
    /\ Raise("fetch", client)
    /\ UNCHANGED <<envVars, histVars, page, all_issues, collections, meta,
                   store, now, run, last_processed_timestamp, new_timestamp,
                   wmWritten, upsertOk, commentFailed, seen, doneRuns, idsAtDone>>
    /\ trace' = IF Len(requests) = 0 THEN Append(trace, "fetch") ELSE trace
    /\ UNCHANGED <<countVars, creates>>

\* Comment listings whose request may raise: at most MaxCommentFailures of
\* those of the special issues, on page 1 or 2.
FailChoices ==
    {f \in [SpecialNumbers -> 0..2] :
        Cardinality({k \in SpecialNumbers : f[k] > 0}) <= MaxCommentFailures}
NoFail == [k \in SpecialNumbers |-> 0]

\* run(): process_and_store_issues(issues) returns.
StoreIssues ==
    /\ pc = "fetched"
    /\ \E fail \in FailChoices :
          \E r \in {process_and_store_issues(all_issues, include_comments,
                                              fail)} :
          /\ store' = Flush(store, r.batch, Len(r.batch))
          /\ commentFailed' = r.failed
          /\ pull_requests' = r.pull_requests
          /\ comment_requests' = r.comment_requests
          /\ added_objects' = Len(r.batch)
    /\ upsertOk' = TRUE
    /\ pc' = "stored"
    /\ UNCHANGED <<envVars, fetchVars, histVars, collections, meta, now, run,
                   client, last_processed_timestamp, new_timestamp, raisedAt,
                   error, wmWritten, seen, doneRuns, idsAtDone>>
    /\ UNCHANGED failures
    /\ trace' = Append(trace, "store")
    /\ UNCHANGED <<closes, creates>>

\* Variant: the error of the batch is caught inside
\* process_and_store_issues and run() goes on.
StoreIssuesFail_swallowed ==
    /\ pc = "fetched"
    /\ \E r \in {process_and_store_issues(all_issues, include_comments,
                                           NoFail)} :
       \E k \in {k \in PartialFlushes : k <= Len(r.batch)} :
          store' = Flush(store, r.batch, k)
    /\ failures < MaxFailures
    /\ failures' = failures + 1
    /\ raisedAt' = "store"
    /\ pc' = "stored"
    /\ UNCHANGED <<envVars, fetchVars, histVars, collections, meta, now, run,
                   client, error, last_processed_timestamp, new_timestamp,
                   wmWritten, upsertOk, commentFailed, seen, doneRuns, idsAtDone>>
    /\ trace' = Append(trace, "store")
    /\ UNCHANGED <<countVars, closes, creates>>

\* run(): process_and_store_issues(issues) raises; the batch may have sent
\* some of its objects already.
StoreIssuesFail ==
    /\ pc = "fetched"
    /\ \E r \in {process_and_store_issues(all_issues, include_comments,
                                           NoFail)} :
       \E k \in {k \in PartialFlushes : k <= Len(r.batch)} :
          store' = Flush(store, r.batch, k)
    /\ Raise("store", client)
    /\ UNCHANGED <<envVars, fetchVars, histVars, collections, meta, now, run,
                   last_processed_timestamp, new_timestamp, wmWritten, upsertOk,
                   commentFailed, seen, doneRuns, idsAtDone>>
    /\ trace' = Append(trace, "store")
    /\ UNCHANGED <<countVars, creates>>

\* The issues somebody may change while a run is under way: the oldest
\* ones and the newest one.
TouchNumbers == SpecialNumbers \cup {source.n}

\* An issue of the repository is changed on GitHub while run() is between
\* new_timestamp = datetime.now() and the end of process_and_store_issues:
\* before the first request of the listing, or after the listing has
\* returned the issue.  The clock is at the time of the change.
Touch ==
    /\ pc \in {"fetching", "fetched"}
    /\ source.touched = None
    /\ \E k \in TouchNumbers \cap 1..source.n, at \in now..MaxClock :
          LET fetched == \E i \in 1..Len(all_issues) : all_issues[i].number = k IN
          /\ requests = <<>> \/ fetched
          /\ source' = [source EXCEPT !.touched =
                            Some([number |-> k, at |-> at, run |-> run,
                                  fetched |-> fetched])]
          /\ now' = at
    /\ UNCHANGED <<include_comments, meta0, collections0, environ, call,
                   comments_arg, id_args, returned>>
    /\ UNCHANGED <<fetchVars, histVars, countVars, collections, meta, store,
                   run, pc, client, last_processed_timestamp, new_timestamp,
                   raisedAt, error, wmWritten, upsertOk, commentFailed, seen,
                   doneRuns, idsAtDone, failures, closes, trace, creates>>

\* Variant: the clock is read again when the watermark is written.
new_timestamp_at_commit == now

\* run(): the new_timestamp handed to set_last_processed_timestamp is the
\* local assigned before fetch_github_issues was called.
new_timestamp_committed == new_timestamp[1]

\* Variant: the watermark is written right after the fetch.
CanCommit_early == pc \in {"fetched", "stored"}

\* run(): the watermark is written after process_and_store_issues.
CanCommit == pc = "stored"

\* run(): set_last_processed_timestamp(new_timestamp), client.close(),
\* return True.
SetWatermark ==
    /\ CanCommit
    /\ meta' = set_last_processed_timestamp(meta, new_timestamp_committed)
    /\ wmWritten' = TRUE
    /\ seen' = seen \cup SeenOf(collections, meta')
    /\ client' = "closed"
    /\ pc' = "done"
    /\ doneRuns' = doneRuns + 1
    /\ UNCHANGED <<envVars, fetchVars, histVars, collections, store, now, run,
                   last_processed_timestamp, new_timestamp, raisedAt, error,
                   upsertOk, commentFailed, idsAtDone>>
    /\ UNCHANGED failures
    /\ trace' = Append(trace, "commit")
    /\ closes' = closes + 1
    /\ UNCHANGED <<countVars, creates>>

SetWatermarkFail ==
    /\ pc = "stored"
    /\ Raise("set", client)
    /\ UNCHANGED <<envVars, fetchVars, histVars, collections, meta, store, now,
                   run, last_processed_timestamp, new_timestamp, wmWritten,
                   upsertOk, commentFailed, seen, doneRuns, idsAtDone>>
    /\ trace' = Append(trace, "commit")
    /\ UNCHANGED <<countVars, creates>>

Next ==
    \/ StartRun
    \/ ConstructFail
    \/ ConnectFail
    \/ Connect
    \/ SchemaFail
    \/ VectorizerFail
    \/ ReadWatermark
    \/ ReadWatermarkFail
    \/ FetchPage
    \/ FetchPageFail
    \/ StoreIssues
    \/ StoreIssuesFail
    \/ SetWatermark
    \/ SetWatermarkFail

Spec == Init /\ [][Next]_vars

\* The steps of a run that has started.
RunStep ==
    \/ ConnectFail
    \/ Connect
    \/ SchemaFail
    \/ VectorizerFail
    \/ ReadWatermark
    \/ ReadWatermarkFail
    \/ FetchPage
    \/ FetchPageFail
    \/ StoreIssues
    \/ StoreIssuesFail
    \/ SetWatermark
    \/ SetWatermarkFail

\* A run that has started goes on: each request returns or raises, and the
\* interpreter takes the next step of run().  Nothing obliges the
\* workflow to start another run.  The runs followed to their end start from sources of at most one issue
\* and from sources whose listing ends just before and just after the first
\* page boundary.
FairInit == Init /\ (source.n <= 1 \/ source.n \in {per_page - 1, per_page + 1})

FairSpec == FairInit /\ [][Next]_vars /\ WF_vars(RunStep)

\* The repository changing under the runs: the steps of the program, and
\* the change of an issue by somebody else.  Followed from sources of at
\* most one issue and from one whose filtered listing leaves issues out.
ChangeInit == Init /\ (source.n <= 1 \/ source.n = per_page - 1)

ChangeNext == Next \/ Touch

ChangeSpec == ChangeInit /\ [][ChangeNext]_vars

\* ------------------------------------------------- methods called alone
\* The comment dicts of the GitHub API as _combine_comments reads them: the
\* user (null for a deleted account) and the body ("" for a falsy one).
CommentDicts == [user : {None, Some("alice"), Some("bob")},
                 body : {"", "LGTM", "Fixed"}]

CommentLists == UNION {[1..n -> CommentDicts] : n \in 0..MaxComments}

\* The objects a metadata collection may hold, uuids in insertion order.
MetaLists ==
    UNION {{[j \in 1..n |-> MetaObject(j, f[j][1], f[j][2])] :
               f \in [1..n -> {None, Some(RepositoryKey), Some("other/repo")}
                              \X (0..MaxClock)]} :
           n \in 0..MaxObjects}

\* The texts INPUT_BATCH_SIZE may hold, as their characters.
BatchSizeChars == {"-", "0", "1", "9"}

BatchSizeTexts == UNION {[1..n -> BatchSizeChars] : n \in 1..MaxDigits}

BatchSizeEnvirons ==
    {e \in {[DefaultEnviron EXCEPT !.INPUT_BATCH_SIZE = b] :
                b \in {None} \cup {Some(t) : t \in BatchSizeTexts}} :
        ~InitRaises(e)}

\* Repository owners and names the settings may hold, and issue numbers.
IdTriples == {"acme", "acme_io"} \X {"api", "io_api"} \X SpecialNumbers

\* An instance after __init__, about to have one method called with
\* arguments, or against a store, drawn from the sets above.
PureInit ==
    /\ call \in {"_combine_comments", "get_last_processed_timestamp",
                "set_last_processed_timestamp", "batch_size",
                "unique_id"}
    /\ comments_arg \in IF call = "_combine_comments" THEN CommentLists ELSE {<<>>}
    /\ id_args \in IF call = "unique_id" THEN IdTriples \X IdTriples ELSE {<<>>}
    /\ collections \in
          IF call = "get_last_processed_timestamp"
          THEN SUBSET {collection_name, METADATA_COLLECTION_NAME}
          ELSE IF call = "set_last_processed_timestamp"
          THEN {{collection_name, METADATA_COLLECTION_NAME}}
          ELSE {{}}
    /\ meta \in IF METADATA_COLLECTION_NAME \in collections THEN MetaLists
                ELSE {<<>>}
    /\ returned = None
    /\ source = [n |-> 0, kinds |-> <<>>, touched |-> None]
    /\ include_comments = TRUE
    /\ store = <<>>
    /\ now = 1
    /\ run = 0
    /\ pc = "idle"
    /\ client = IF call = "_combine_comments" THEN "unset" ELSE "open"
    /\ last_processed_timestamp = None
    /\ new_timestamp \in IF call = "set_last_processed_timestamp"
                         THEN {Some(t) : t \in 0..MaxClock} ELSE {None}
    /\ page = 1
    /\ all_issues = <<>>
    /\ requests = <<>>
    /\ raisedAt = "none"
    /\ error = None
    /\ wmWritten = FALSE
    /\ upsertOk = FALSE
    /\ commentFailed = {}
    /\ metaAtStart = meta
    /\ storeAtStart = store
    /\ meta0 = meta
    /\ seen = {}
    /\ seenBefore = {}
    /\ doneRuns = 0
    /\ idsAtDone = None
    /\ getAtStart = None
    /\ failures = 0
    /\ pull_requests = 0
    /\ comment_requests = {}
    /\ added_objects = 0
    /\ closes = 0
    /\ trace = <<>>
    /\ creates = [c \in {collection_name, METADATA_COLLECTION_NAME} |-> 0]
    /\ collections0 = collections
    /\ environ \in IF call = "batch_size" THEN BatchSizeEnvirons
                   ELSE {DefaultEnviron}

runVars == <<source, include_comments, now, run, pc, client,
             last_processed_timestamp, new_timestamp, fetchVars, raisedAt,
             error, wmWritten, upsertOk, commentFailed, histVars, meta0, seen,
             doneRuns, idsAtDone, failures, countVars, closes, trace, creates,
             collections0, environ, id_args>>

\* self._combine_comments(comments)
CallCombineComments ==
    /\ call = "_combine_comments"
    /\ returned = None
    /\ returned' = Some(_combine_comments(comments_arg))
    /\ UNCHANGED <<runVars, call, comments_arg, collections, meta, store>>

\* self.get_last_processed_timestamp(): exists() and fetch_objects() only.
CallGetLastProcessedTimestamp ==
    /\ call = "get_last_processed_timestamp"
    /\ returned = None
    /\ returned' = Some(get_last_processed_timestamp(collections, meta))
    /\ UNCHANGED <<runVars, call, comments_arg, collections, meta, store>>

\* self.set_last_processed_timestamp(new_timestamp)
CallSetLastProcessedTimestamp ==
    /\ call = "set_last_processed_timestamp"
    /\ returned = None
    /\ meta' = set_last_processed_timestamp(meta, new_timestamp[1])
    /\ returned' = Some(None)
    /\ UNCHANGED <<runVars, call, comments_arg, collections, store>>

\* process_and_store_issues: batch.batch_size = min(self.batch_size, 100)
CallBatchSize ==
    /\ call = "batch_size"
    /\ returned = None
    /\ returned' = Some(batch_size(self_batch_size(environ)[1]))
    /\ UNCHANGED <<runVars, call, comments_arg, collections, meta, store>>

\* process_and_store_issues: unique_id, for two instances or two issues.
CallUniqueId ==
    /\ call = "unique_id"
    /\ returned = None
    /\ returned' = Some(<<UniqueId(id_args[1][1], id_args[1][2], id_args[1][3]),
                          UniqueId(id_args[2][1], id_args[2][2], id_args[2][3])>>)
    /\ UNCHANGED <<runVars, call, comments_arg, collections, meta, store>>

PureNext ==
    \/ CallBatchSize
    \/ CallUniqueId
    \/ CallCombineComments
    \/ CallGetLastProcessedTimestamp
    \/ CallSetLastProcessedTimestamp

PureSpec == PureInit /\ [][PureNext]_vars

\* ================================================================ claims
GetNow == get_last_processed_timestamp(collections, meta)

\* fetch_github_issues has returned in this run.
FetchReturned ==
    \/ pc \in {"fetched", "stored", "done"}
    \/ pc = "failed" /\ raisedAt \in {"store", "set"}

\* What the source holds for the query of this run: a change made after
\* the listing returned the issue is not part of it.
SourceOfRun ==
    IF source.touched # None /\ source.touched[1].run = run
                             /\ source.touched[1].fetched
    THEN [source EXCEPT !.touched = None]
    ELSE source

Served == Listing(SourceOfRun, last_processed_timestamp)

NonPullRequests(issues) ==
    {issues[i].number : i \in {i \in 1..Len(issues) : ~issues[i].pull_request}}

\* C1: the watermark of a run is written (set_last_processed_timestamp
\* invoked, or the metadata collection changed) only when that run's
\* process_and_store_issues has returned and nothing raised before.
C1_WatermarkAfterUpsert ==
    (wmWritten \/ meta # metaAtStart) => (upsertOk /\ raisedAt = "none")

C1_Witness ==
    /\ pc = "done"
    /\ wmWritten
    /\ upsertOk
    /\ meta # metaAtStart
    /\ store # storeAtStart

\* C2: after a successful run that started with no watermark of the
\* repository and committed T, get returns T.
C2_RoundTrip ==
    (pc = "done" /\ Len(Matching(metaAtStart)) = 0) => GetNow = new_timestamp

\* C3: starting from an empty metadata collection, the collection never
\* holds more than one object: the first run inserts, later runs update.
C3_OneRecord ==
    meta0 = <<>> => Len(meta) <= 1

\* C4: after a successful run, get returns a timestamp that is at least
\* every timestamp get returned before the run.
C4_Monotonic ==
    pc = "done" =>
        \A t \in seenBefore : GetNow # None /\ GetNow[1] >= t

C4_Witness ==
    /\ pc = "done"
    /\ doneRuns = 2
    /\ seenBefore # {}
    /\ GetNow = Some(MaxClock)

\* C5: when connecting, schema setup, the watermark read, the primary fetch
\* or the upsert raised in a run, set_last_processed_timestamp was not
\* invoked in it, the metadata objects are those of the start of the run and
\* get returns what it returned then.
C5_FailedRunNoCommit ==
    raisedAt \in {"connect", "schema", "get", "fetch", "store"} =>
        /\ ~wmWritten
        /\ meta = metaAtStart
        /\ GetNow = getAtStart

C5_Witness ==
    /\ pc = "failed"
    /\ raisedAt = "store"
    /\ store # storeAtStart
    /\ getAtStart # None

\* C6: a successful run stores exactly one object per issue of its listing
\* that is not a pull request, under the identifier of (owner, name, number),
\* and none for a pull request; a successful run after an earlier successful
\* one leaves the set of stored identifiers as it was.
C6_IdempotentUpsert ==
    pc = "done" =>
        /\ \A k \in NonPullRequests(Served) :
              /\ UniqueId(repo_owner, repo_name, k) \in DOMAIN store
              /\ store[UniqueId(repo_owner, repo_name, k)].number = k
        /\ Cardinality({store[id].number : id \in DOMAIN store})
              = Cardinality(DOMAIN store)
        /\ {store[id].number : id \in DOMAIN store}
              \subseteq NonPullRequests(Github(source))
        /\ last_processed_timestamp = None =>
              Cardinality(DOMAIN store)
                 = Cardinality(NonPullRequests(Github(source)))
        /\ idsAtDone # None => DOMAIN store = idsAtDone[1]

C6_Witness ==
    /\ pc = "done"
    /\ doneRuns = 2
    /\ idsAtDone # None
    /\ Cardinality(DOMAIN store) = per_page
    /\ source.n = per_page + 1

\* C7: for a source holding N records, fetch_github_issues makes ceil(N/P)
\* requests when N is not a multiple of P = per_page and N/P + 1 when it is.
ExpectedRequests(N, P) ==
    IF N % P = 0 THEN N \div P + 1 ELSE (N + P - 1) \div P

C7_RequestCount ==
    FetchReturned => Len(requests) = ExpectedRequests(Len(Served), per_page)

C7_Witness ==
    /\ pc = "fetched"
    /\ Len(Served) = 2 * per_page
    /\ Len(requests) = 3

\* C8: when no request fails, fetch_github_issues returns the records of the
\* source in order, each once, and the pages requested are 1, 2, 3, ...
C8_PaginationResult ==
    /\ \A i \in 1..Len(requests) : requests[i].page = i
    /\ FetchReturned => all_issues = Served

C8_Witness ==
    /\ pc = "fetched"
    /\ Len(all_issues) = 2 * per_page + 1
    /\ Len(requests) = 3

\* C9: when a request of the primary listing raises, the run fails at once:
\* the failed request is the last one, nothing is upserted and no watermark
\* is written in that run.
C9_PrimaryFetchFatal ==
    raisedAt = "fetch" =>
        /\ pc = "failed"
        /\ error = Some("fetch")
        /\ requests[Len(requests)].page = page
        /\ Len(requests) = page
        /\ ~upsertOk
        /\ store = storeAtStart
        /\ ~wmWritten
        /\ meta = metaAtStart

C9_Witness ==
    /\ pc = "failed"
    /\ raisedAt = "fetch"
    /\ Len(requests) = 2
    /\ Len(all_issues) = per_page

\* C10: an issue whose comment listing raised, on whatever page, is stored
\* with absent combined comments and comment count 0.
C10_CommentFailureIsEmpty ==
    upsertOk =>
        \A f \in commentFailed :
            LET id == UniqueId(repo_owner, repo_name, f[1]) IN
            /\ id \in DOMAIN store
            /\ store[id].comments = None
            /\ store[id].commentCount = 0

\* C11: no record that carries pull_request reaches the upsert batch or the
\* store; the counter of skipped records equals the number of such records
\* in the input, and objects added plus records skipped is the input length.
C11_TypeFiltering ==
    /\ \A id \in DOMAIN store :
          ~Issue(source, store[id].number).pull_request
    /\ upsertOk =>
          /\ pull_requests =
                Cardinality({i \in 1..Len(all_issues) : all_issues[i].pull_request})
          /\ added_objects + pull_requests = Len(all_issues)

C11_Witness ==
    /\ upsertOk
    /\ pull_requests >= 1
    /\ added_objects >= 1
    /\ Cardinality(DOMAIN store) = added_objects

\* The texts "[author]: body" of the comments with a body, first to last.
RECURSIVE BlocksOf(_)
BlocksOf(cs) ==
    IF cs = <<>> THEN <<>>
    ELSE LET c == Head(cs)
             author == IF c.user = None THEN "unknown" ELSE c.user[1]
         IN (IF c.body = "" THEN <<>> ELSE <<"[" \o author \o "]: " \o c.body>>)
            \o BlocksOf(Tail(cs))

\* The texts with a blank line between each two.
RECURSIVE BlankLineJoined(_)
BlankLineJoined(texts) ==
    IF Len(texts) = 1 THEN texts[1]
    ELSE BlankLineJoined(SubSeq(texts, 1, Len(texts) - 1))
            \o "\n\n" \o texts[Len(texts)]

\* C12: _combine_comments returns the "[author]: body" blocks of exactly the
\* comments with a non-empty body, in input order, joined by a blank line;
\* it returns None, never the empty string, when no comment has a body.
C12_CommentAssembly ==
    (call = "_combine_comments" /\ returned # None) =>
        LET r == returned[1] IN
        /\ r = None <=> \A j \in 1..Len(comments_arg) : comments_arg[j].body = ""
        /\ r # Some("")
        /\ r # None => r[1] = BlankLineJoined(BlocksOf(comments_arg))

C12_Witness ==
    /\ call = "_combine_comments"
    /\ returned = Some(Some("[alice]: LGTM\n\n[unknown]: Fixed"))
    /\ Len(comments_arg) = 3
    /\ comments_arg[2].body = ""

\* C13: with a vectorizer name outside the supported set, a run that
\* was entered has failed with the validation error and no connection to
\* the store was made, whether or not the issue collection exists.
C13_VectorizerValidatedFirst ==
    (environ.INPUT_VECTORIZER \notin vectorizer_map /\ pc \notin {"idle", "init"}) =>
        /\ pc = "failed"
        /\ raisedAt = "vectorizer"
        /\ client = "unset"
        /\ trace = <<>>

\* The store URL, the repository owner or the repository name is unset or
\* empty once __init__ has read the environment.
RequiredSettingMissing ==
    \/ environ.INPUT_WEAVIATE_URL = None
    \/ environ.INPUT_WEAVIATE_URL = Some("")
    \/ "" \in {ResolveRepo(environ)[1], ResolveRepo(environ)[2]}

\* C14: with a required setting missing after the fallback to
\* GITHUB_REPOSITORY, the constructor raises; run() is never entered, no
\* connection is made and no request is sent.
C14_MissingSettingFailsConstruction ==
    RequiredSettingMissing =>
        /\ pc \in {"idle", "exit"}
        /\ pc = "exit" => error = Some("ValueError") /\ raisedAt = "__init__"
        /\ run = 0
        /\ client = "unset"
        /\ trace = <<>>
        /\ requests = <<>>
        /\ collections = collections0 /\ meta = meta0 /\ store = <<>>

C14_Witness ==
    /\ pc = "exit"
    /\ error = Some("ValueError")
    /\ RequiredSettingMissing
    /\ ResolveRepo(environ) = <<"", repo_name>>
    /\ environ.GITHUB_REPOSITORY = <<"", repo_name>>

\* C15: the error that leaves a failed run() is the one raised by the step
\* that failed, the connection step included.
C15_TriggeringErrorReraised ==
    pc = "failed" => error = Some(raisedAt)

\* C16: a run that acquired the connection ends, done or failed, with the
\* client closed by exactly one close() call made at its end; no run ends
\* with an open client.
C16_ConnectionRelease ==
    /\ (pc \in {"done", "failed"} /\ client # "unset") =>
          client = "closed" /\ closes = 1
    /\ pc \in {"idle", "exit", "done", "failed"} => client # "open"
    /\ pc \notin {"done", "failed"} => closes = 0
    /\ client = "unset" => closes = 0

C16_Witness ==
    /\ pc = "failed"
    /\ raisedAt = "store"
    /\ client = "closed"
    /\ closes = 1
    /\ doneRuns = 1

\* The phases of run() and the phase each failing step belongs to.
Phases == <<"connect", "read", "fetch", "store", "commit">>

PhaseOfStep ==
    [connect |-> 1, schema |-> 1, vectorizer |-> 1, get |-> 2, fetch |-> 3,
     store |-> 4, set |-> 5]

\* C17: a run enters the phases connect/schema, watermark read, fetch,
\* filter/upsert, watermark commit in that order, each once; a run is done
\* only after all five, and a step that raises ends the run as failed in
\* the phase of that step, with no later phase entered.
C17_PhaseOrdering ==
    /\ trace = SubSeq(Phases, 1, Len(trace))
    /\ pc = "done" => trace = Phases /\ raisedAt = "none"
    /\ (raisedAt # "none" /\ pc # "exit") =>
          /\ pc = "failed"
          /\ trace = SubSeq(Phases, 1, PhaseOfStep[raisedAt])

C17_Witness ==
    /\ pc = "failed"
    /\ raisedAt = "fetch"
    /\ trace = <<"connect", "read", "fetch">>
    /\ Len(requests) = 2
    /\ doneRuns = 1

\* The positions of the objects whose repository is this repository's key.
KeyPositions(objects) ==
    {k \in 1..Len(objects) : objects[k].repository = Some(RepositoryKey)}

FirstKeyPosition(objects) ==
    CHOOSE k \in KeyPositions(objects) : \A j \in KeyPositions(objects) : k <= j

\* C18: called on a metadata collection with two or more objects for the
\* key, set_last_processed_timestamp gives the first of them the new
\* timestamp, leaves every other object as it was and adds none, so the
\* number of objects for the key is unchanged.
C18_DuplicateWatermarks ==
    (/\ call = "set_last_processed_timestamp"
     /\ returned # None
     /\ Cardinality(KeyPositions(metaAtStart)) >= 2) =>
        LET first == FirstKeyPosition(metaAtStart) IN
        /\ Len(meta) = Len(metaAtStart)
        /\ meta[first] = [metaAtStart[first] EXCEPT
                              !.lastProcessedTimestamp = new_timestamp]
        /\ \A k \in 1..Len(meta) : k # first => meta[k] = metaAtStart[k]
        /\ KeyPositions(meta) = KeyPositions(metaAtStart)

C18_Witness ==
    /\ call = "set_last_processed_timestamp"
    /\ returned # None
    /\ KeyPositions(metaAtStart) = {2, 3}
    /\ meta[2] # metaAtStart[2]
    /\ meta[3] = metaAtStart[3]
    /\ meta[3].lastProcessedTimestamp # new_timestamp

\* C19: get_last_processed_timestamp returns None exactly when the
\* metadata collection does not exist or holds no object whose repository
\* is owner/name; otherwise it returns the timestamp of the first such
\* object; the store is the same after the call as before.
C19_GetWatermark ==
    (call = "get_last_processed_timestamp" /\ returned # None) =>
        LET r == returned[1] IN
        /\ r = None <=> \/ METADATA_COLLECTION_NAME \notin collections
                        \/ KeyPositions(meta) = {}
        /\ r # None => r = meta[FirstKeyPosition(meta)].lastProcessedTimestamp
        /\ collections = collections0
        /\ meta = metaAtStart
        /\ store = storeAtStart

C19_Witness ==
    /\ call = "get_last_processed_timestamp"
    /\ returned = Some(Some(1))
    /\ KeyPositions(meta) = {2, 3}
    /\ meta[1].lastProcessedTimestamp = Some(0)
    /\ meta[3].lastProcessedTimestamp = Some(2)

\* C20: once connect_to_weaviate has returned, both collections exist; a
\* collection that exists is not created again, dropped or changed by it,
\* so over any number of runs each collection is created at most once.
C20_SchemaEnsureIdempotent ==
    /\ \A c \in DOMAIN creates : creates[c] <= 1
    /\ \A c \in collections0 : creates[c] = 0
    /\ collections = collections0 \cup {c \in DOMAIN creates : creates[c] = 1}
    /\ pc \in {"connected", "fetching", "fetched", "stored", "done"} =>
          {collection_name, METADATA_COLLECTION_NAME} \subseteq collections
    /\ pc = "connected" => meta = metaAtStart /\ store = storeAtStart

C20_Witness ==
    /\ run = 2
    /\ pc = "connected"
    /\ doneRuns = 1
    /\ collections0 = {}
    /\ creates = [c \in {collection_name, METADATA_COLLECTION_NAME} |-> 1]

\* C21: whatever number INPUT_BATCH_SIZE holds, the size set on the upsert
\* batch is the smaller of that number and 100, so it is never above 100.
C21_BatchSizeCeiling ==
    (call = "batch_size" /\ returned # None) =>
        LET configured == self_batch_size(environ)[1]
            applied == returned[1]
        IN /\ applied <= 100
           /\ configured <= 100 => applied = configured
           /\ configured > 100 => applied = 100

C21_Witness ==
    /\ call = "batch_size"
    /\ environ.INPUT_BATCH_SIZE = Some(<<"1", "0", "1">>)
    /\ returned = Some(100)

\* C22: every request of the primary listing, whatever its page, carries
\* the since value the run read (all carry it when there is one, none
\* carries one when there is none), and the pages are walked to the end:
\* what is returned is everything the source holds for that since value.
C22_SinceOnEveryPage ==
    /\ \A i \in 1..Len(requests) : requests[i].since = last_processed_timestamp
    /\ FetchReturned =>
          /\ Len(requests) * per_page > Len(Served)
          /\ Len(all_issues) = Len(Served)
          /\ \A i \in 1..Len(all_issues) :
                last_processed_timestamp # None =>
                    all_issues[i].updated_at >= last_processed_timestamp[1]

C22_Witness ==
    /\ pc = "fetched"
    /\ last_processed_timestamp = Some(1)
    /\ Len(requests) = 2
    /\ requests[2] = [page |-> 2, since |-> Some(1)]
    /\ Len(all_issues) > per_page
    /\ Len(all_issues) < source.n

\* C23: the identifier is a function of (owner, name, number), and two
\* different triples give different key strings, so different identifiers.
C23_IdentityMapping ==
    (call = "unique_id" /\ returned # None) =>
        /\ id_args[1] = id_args[2] => returned[1][1] = returned[1][2]
        /\ id_args[1] # id_args[2] => returned[1][1] # returned[1][2]

\* The pages of the primary listing received so far were all full while
\* the loop goes on, and the last one was short or empty once it has ended.
PrimaryLoopEnds ==
    /\ pc = "fetching" => Len(all_issues) = Len(requests) * per_page
    /\ FetchReturned =>
          /\ Len(all_issues) < Len(requests) * per_page
          /\ Len(all_issues) >= (Len(requests) - 1) * per_page

\* A comment listing is requested up to its first short or empty page, or
\* up to the request that raised.
CommentLoopEnds ==
    upsertOk =>
        \A cr \in comment_requests :
            IF \E f \in commentFailed : f[1] = cr[1]
            THEN <<cr[1], cr[2]>> \in commentFailed
            ELSE cr[2] = ExpectedRequests(Issue(source, cr[1]).ncomments,
                                          comments_per_page)

\* C24: a run that has started reaches done or failed; the primary loop
\* ends on the first empty or short page, the comment loop also on the
\* first request that raises.
C24_Termination ==
    /\ (pc \in {"init", "connected", "fetching", "fetched", "stored"})
          ~> (pc \in {"done", "failed"})
    /\ [](PrimaryLoopEnds /\ CommentLoopEnds)

C24_Witness ==
    /\ pc = "done"
    /\ Len(requests) = 2
    /\ Len(all_issues) = per_page + 1
    /\ run = 2

\* The change made to an issue during an earlier or the current run.
Changed == source.touched # None

IsFetched(k) == \E i \in 1..Len(all_issues) : all_issues[i].number = k

\* new_timestamp is assigned before the first request of the listing and
\* the watermark written is that value.
CommitsCapturedClock ==
    /\ Len(requests) > 0 => new_timestamp # None
    /\ wmWritten =>
          meta = set_last_processed_timestamp(metaAtStart, new_timestamp[1])

\* An issue changed during a run after new_timestamp was assigned has a
\* change time that is not before it, and the listing of the next run
\* returns the issue.
ChangedIsFetchedAgain ==
    /\ (Changed /\ source.touched[1].run = run) =>
          (new_timestamp # None /\ source.touched[1].at >= new_timestamp[1])
    /\ (Changed /\ source.touched[1].run + 1 = run /\ FetchReturned) =>
          IsFetched(source.touched[1].number)

\* C25: the timestamp a run commits is the clock value read before the
\* run's first request of the issue listing and is not read again later in
\* the run; an issue changed while the run fetches or stores is changed at or
\* after that value and is fetched again by the next run.
C25_WatermarkCapturedBeforeFetch ==
    /\ [](CommitsCapturedClock /\ ChangedIsFetchedAgain)
    /\ [][(new_timestamp # None /\ run' = run)
             => new_timestamp' = new_timestamp]_vars

C25_Witness ==
    /\ pc = "fetched"
    /\ Changed
    /\ source.touched[1].run + 1 = run
    /\ source.touched[1].fetched
    /\ doneRuns = 1
    /\ last_processed_timestamp # None
    /\ Issue([source EXCEPT !.touched = None],
             source.touched[1].number).updated_at < last_processed_timestamp[1]
    /\ IsFetched(source.touched[1].number)
    /\ Len(all_issues) < source.n

\* The record of the listing is one whose comments the loop fetches.
CommentsWanted(k) ==
    /\ include_comments
    /\ Issue(source, k).comments_url
    /\ ~Issue(source, k).pull_request

StoredIssue(k) == store[UniqueId(repo_owner, repo_name, k)]

\* C26: process_and_store_issues issues a comment request only for a record
\* that is not a pull request and has a comments_url, and only when comment
\* inclusion is enabled; every other issue is stored with absent combined
\* comments and comment count 0.
C26_NoCommentRequest ==
    upsertOk =>
        /\ \A cr \in comment_requests : CommentsWanted(cr[1])
        /\ \A k \in NonPullRequests(all_issues) :
              ~CommentsWanted(k) =>
                 /\ StoredIssue(k).comments = None
                 /\ StoredIssue(k).commentCount = 0

C26_Witness ==
    /\ pc = "done"
    /\ include_comments
    /\ source.kinds = <<"nourl", "talk">>
    /\ Len(all_issues) = 2
    /\ comment_requests = {<<2, 1>>}
    /\ StoredIssue(1).comments = None
    /\ StoredIssue(1).commentCount = 0
    /\ StoredIssue(2).commentCount = 2
====
